---- MODULE Spec2Model ----
(***************************************************************************)
(* Model of generate_video.py: the scene pipeline of main (image stage,    *)
(* animation stage with its polling loop, Ken Burns fallback, caption      *)
(* overlay, final concatenation), the two retry loops with their backoff   *)
(* waits, and the zoompan motion law create_fallback_video builds.         *)
(*                                                                         *)
(* Remote calls and external tools are the environment: every call picks   *)
(* its outcome from the outcomes the call can have (a result, an exception *)
(* whose text carries or lacks the markers the code looks for, a non-zero  *)
(* exit, a tool that cannot be started).                                   *)
(***************************************************************************)
EXTENDS Integers, Sequences, FiniteSets

VARIABLES
    pc,            \* position of the run in main and in the stage it is inside
    i,             \* 1-based index into SCENES of the scene being processed
    use_veo,       \* main: use_veo
    scene_videos,  \* main: scene_videos, a sequence of artifact paths
    exists,        \* the files that exist under OUTPUT_DIR
    attempt,       \* loop variable of the retry loop the run is inside
    calls,         \* remote invocations made by the stage call in progress
    quota_waits,   \* seconds slept after each quota error of the call in progress
    last,          \* the last attempt of the retry loop in progress, or NoAttempt
    ret,           \* value the last stage call returned
    poll_count,    \* generate_video_from_image: poll_count, kept modulo 6
    invoked,       \* history: the stages main has called for scene i so far
    seen,          \* history: the artifacts of scene i present when it reached their step
    outcome,       \* history: per scene, how it was resolved, or "pending"
    failed_at,     \* history: first scene whose animation call returned False, or 0
    assemblies,    \* history: calls of concatenate_videos
    manifest,      \* content of concat.txt, or NoFile
    report,        \* the closing message main printed
    raised,        \* where an exception left main, or "none"
    filter,        \* filter_complex last built by create_fallback_video
    kb_motion,     \* create_fallback_video: motion
    kb_duration,   \* create_fallback_video: duration, in seconds
    kb_on,         \* zoompan: number of frames rendered
    kb_zoom,       \* zoompan: zoom of the last frame, in 1/10000
    kb_ref         \* zoom of the last frame of the "slow zoom-in" law on the same input

vars == <<pc, i, use_veo, scene_videos, exists, attempt, calls, quota_waits, last, ret,
          poll_count, invoked, seen, outcome, failed_at, assemblies, manifest,
          report, raised, filter, kb_motion, kb_duration, kb_on, kb_zoom, kb_ref>>

kbVars == <<kb_motion, kb_duration, kb_on, kb_zoom, kb_ref>>

----------------------------------------------------------------------------
(* Bounds of the model *)

\* files already under OUTPUT_DIR when the run starts
MaxPreexisting == 2

\* longest duration, in seconds, create_fallback_video is applied to
MaxDuration == 14

----------------------------------------------------------------------------
(* Program constants *)

NumScenes == 4

IMAGE_MAX_RETRIES == 5

VIDEO_MAX_RETRIES == 3

IMAGE_QUOTA_BASE == 10

IMAGE_QUOTA_CAP == 120

IMAGE_UNAVAILABLE_BASE == 5

IMAGE_UNAVAILABLE_CAP == 60

IMAGE_OTHER_DELAY == 5

VIDEO_QUOTA_BASE == 30

VIDEO_QUOTA_CAP == 180

VIDEO_OTHER_DELAY == 10

POLL_REPORT_EVERY == 6

FALLBACK_DURATION == 6

FRAME_RATE == 25

\* zoom 1.0, in 1/10000
ZOOM_ONE == 10000

Scenes == 1..NumScenes

camera == <<"slow zoom-in", "slow outside-in drift", "slow follow", "upward tilt">>

raw_image(s) == <<"raw.png", s>>

raw_video(s) == <<"raw.mp4", s>>

final_video(s) == <<"mp4", s>>

Artifacts == {raw_image(s) : s \in Scenes} \cup {raw_video(s) : s \in Scenes}
                \cup {final_video(s) : s \in Scenes}

NoFile == <<"no file">>

NoFilter == [law |-> "none"]

Min(a, b) == IF a <= b THEN a ELSE b

\* An exception as the retry loops read it: str(e) carries or lacks the
\* quota markers ('429', 'RESOURCE_EXHAUSTED') and the unavailable markers
\* ('503', 'UNAVAILABLE').
Errors == [quota : BOOLEAN, unavailable : BOOLEAN]

----------------------------------------------------------------------------
(* The retry policies *)

ImageClass(e) ==
    IF e.quota THEN "quota"
    ELSE IF e.unavailable THEN "unavailable"
    ELSE "other"

\* variant: the quota wait is not capped
ImageWait_mut(cls, a) ==
    IF cls = "quota" THEN (2 ^ a) * IMAGE_QUOTA_BASE
    ELSE IF cls = "unavailable"
         THEN Min((2 ^ a) * IMAGE_UNAVAILABLE_BASE, IMAGE_UNAVAILABLE_CAP)
    ELSE IMAGE_OTHER_DELAY

ImageWait(cls, a) ==
    IF cls = "quota" THEN Min((2 ^ a) * IMAGE_QUOTA_BASE, IMAGE_QUOTA_CAP)
    ELSE IF cls = "unavailable"
         THEN Min((2 ^ a) * IMAGE_UNAVAILABLE_BASE, IMAGE_UNAVAILABLE_CAP)
    ELSE IMAGE_OTHER_DELAY

\* variant: the last attempt returns False whatever the error was
ImageGivesUp_last(cls, a) == a = IMAGE_MAX_RETRIES - 1

\* variant: the last attempt is not told apart from the others
ImageGivesUp_mut(cls, a) == FALSE

\* the except block returns False instead of sleeping
ImageGivesUp(cls, a) == cls = "other" /\ a = IMAGE_MAX_RETRIES - 1

VideoClass(e) == IF e.quota THEN "quota" ELSE "other"

\* variant: every error waits the doubling backoff, as in generate_image
VideoWait_mut(cls, a) == Min((2 ^ a) * VIDEO_QUOTA_BASE, VIDEO_QUOTA_CAP)

VideoWait(cls, a) ==
    IF cls = "quota" THEN Min((2 ^ a) * VIDEO_QUOTA_BASE, VIDEO_QUOTA_CAP)
    ELSE VIDEO_OTHER_DELAY

\* the except block returns False instead of sleeping
VideoGivesUp(cls, a) == cls # "quota" /\ a = VIDEO_MAX_RETRIES - 1

NoError == [quota |-> FALSE, unavailable |-> FALSE]

NoAttempt == [attempt |-> -1, outcome |-> "none", error |-> NoError, slept |-> 0]

\* what an attempt of the loop in progress ended with
Ended(how, e, secs) ==
    last' = [attempt |-> attempt, outcome |-> how, error |-> e, slept |-> secs]

\* time.sleep(secs) in the except block, for an error classified cls
Sleep(e, cls, secs) ==
    /\ Ended("raised", e, secs)
    /\ quota_waits' = IF cls = "quota" THEN Append(quota_waits, secs) ELSE quota_waits

----------------------------------------------------------------------------
(* create_fallback_video: the filter it builds, and zoompan's zoom *)

Motions == {"slow zoom-in", "slow outside-in drift", "slow follow",
            "upward tilt", "zoom-in", "unlisted"}

\* variant: "slow zoom-in" has no branch of its own and is the else branch
KenBurnsFilter_mut(motion, duration) ==
    IF motion = "slow outside-in drift" THEN
        [law |-> "zoom", inc |-> 2, cap |-> 11000,
         x |-> "if(eq(on,1),iw/4,x-0.3)", y |-> "ih/2-(ih/zoom/2)",
         d |-> duration * FRAME_RATE, s |-> "720x1280"]
    ELSE IF motion = "slow follow" THEN
        [law |-> "fixed", inc |-> 0, cap |-> 10800,
         x |-> "if(eq(on,1),0,x+0.8)", y |-> "ih/2-(ih/zoom/2)",
         d |-> duration * FRAME_RATE, s |-> "720x1280"]
    ELSE IF motion = "upward tilt" THEN
        [law |-> "fixed", inc |-> 0, cap |-> 11000,
         x |-> "iw/2-(iw/zoom/2)", y |-> "if(eq(on,1),ih/3,y-0.6)",
         d |-> duration * FRAME_RATE, s |-> "720x1280"]
    ELSE
        [law |-> "zoom", inc |-> 3, cap |-> 11200,
         x |-> "iw/2-(iw/zoom/2)", y |-> "ih/2-(ih/zoom/2)",
         d |-> duration * FRAME_RATE, s |-> "720x1280"]

KenBurnsFilter(motion, duration) ==
    IF motion = "slow zoom-in" THEN
        [law |-> "zoom", inc |-> 3, cap |-> 11200,
         x |-> "iw/2-(iw/zoom/2)", y |-> "ih/2-(ih/zoom/2)",
         d |-> duration * FRAME_RATE, s |-> "720x1280"]
    ELSE IF motion = "slow outside-in drift" THEN
        [law |-> "zoom", inc |-> 2, cap |-> 11000,
         x |-> "if(eq(on,1),iw/4,x-0.3)", y |-> "ih/2-(ih/zoom/2)",
         d |-> duration * FRAME_RATE, s |-> "720x1280"]
    ELSE IF motion = "slow follow" THEN
        [law |-> "fixed", inc |-> 0, cap |-> 10800,
         x |-> "if(eq(on,1),0,x+0.8)", y |-> "ih/2-(ih/zoom/2)",
         d |-> duration * FRAME_RATE, s |-> "720x1280"]
    ELSE IF motion = "upward tilt" THEN
        [law |-> "fixed", inc |-> 0, cap |-> 11000,
         x |-> "iw/2-(iw/zoom/2)", y |-> "if(eq(on,1),ih/3,y-0.6)",
         d |-> duration * FRAME_RATE, s |-> "720x1280"]
    ELSE
        [law |-> "zoom", inc |-> 3, cap |-> 11000,
         x |-> "iw/2-(iw/zoom/2)", y |-> "ih/2-(ih/zoom/2)",
         d |-> duration * FRAME_RATE, s |-> "720x1280"]

\* z of the next frame: min(zoom+inc,cap), or the constant
ZoomExpr(f, zoom) ==
    IF f.law = "zoom" THEN Min(zoom + f.inc, f.cap) ELSE f.cap

----------------------------------------------------------------------------
(* Initial states *)

InitLocals ==
    /\ attempt = 0
    /\ calls = 0
    /\ quota_waits = <<>>
    /\ last = NoAttempt
    /\ ret = FALSE
    /\ poll_count = 0

InitMain ==
    /\ i = 1
    /\ use_veo = TRUE
    /\ scene_videos = <<>>
    /\ InitLocals
    /\ invoked = {}
    /\ seen = {}
    /\ outcome = [s \in Scenes |-> "pending"]
    /\ assemblies = 0
    /\ failed_at = 0
    /\ manifest = NoFile
    /\ report = "none"
    /\ raised = "none"
    /\ filter = NoFilter

Init ==
    /\ pc = "start"
    /\ InitMain
    /\ exists \in {fs \in SUBSET Artifacts : Cardinality(fs) <= MaxPreexisting}
    /\ kb_motion = "none"
    /\ kb_duration = 0
    /\ kb_on = 0
    /\ kb_zoom = 0
    /\ kb_ref = 0

----------------------------------------------------------------------------
(* main *)

ResetLocals ==
    /\ attempt' = 0
    /\ calls' = 0
    /\ quota_waits' = <<>>
    /\ last' = NoAttempt
    /\ poll_count' = 0

\* the for loop of main moves on to the next scene, or past the last one
\* variant: the loop takes the same scene again
NextScene_mut ==
    /\ i' = i
    /\ invoked' = {}
    /\ seen' = {}
    /\ pc' = "scene"

NextScene ==
    /\ i' = i + 1
    /\ invoked' = {}
    /\ seen' = {}
    /\ pc' = IF i = NumScenes THEN "final" ELSE "scene"

Call(stage) == invoked' = invoked \cup {stage}

\* history: whether the artifact is there as the scene reaches its step
Look(kind, path) ==
    seen' = IF path \in exists THEN seen \cup {kind} ELSE seen

Resolve(how) == outcome' = [outcome EXCEPT ![i] = how]

\* variant: the image is generated whether or not the file is there
ImageMissing_mut(s) == TRUE

ImageMissing(s) == raw_image(s) \notin exists

\* variant: the video is made whether or not the file is there
VideoMissing_mut(s) == TRUE

VideoMissing(s) == raw_video(s) \notin exists

\* find_api_key and sys.exit(1)
FindApiKey ==
    /\ pc = "start"
    /\ \E found \in BOOLEAN :
         IF found
         THEN /\ pc' = "scene"
              /\ report' = report
         ELSE /\ pc' = "exit"
              /\ report' = "no key"
    /\ UNCHANGED <<i, use_veo, scene_videos, exists, attempt, calls,
                  quota_waits, last, ret, poll_count, invoked, seen,
                  outcome, failed_at, assemblies, manifest, raised, filter,
                  kbVars>>

\* Step 1 of a scene: the image is reused, or generate_image is called
SceneImageStep ==
    /\ pc = "scene"
    /\ Look("image", raw_image(i))
    /\ IF ImageMissing(i)
       THEN /\ pc' = "image"
            /\ Call("image")
       ELSE /\ pc' = "video"
            /\ UNCHANGED invoked
    /\ UNCHANGED <<i, use_veo, scene_videos, exists, attempt, calls,
                  quota_waits, last, ret, poll_count, outcome, failed_at,
                  assemblies, manifest, report, raised, filter, kbVars>>

----------------------------------------------------------------------------
(* generate_image *)

\* the remote call returns an image, which is written to output_path
GenerateImage_Saved ==
    /\ pc = "image"
    /\ attempt < IMAGE_MAX_RETRIES
    /\ calls' = calls + 1
    /\ exists' = exists \cup {raw_image(i)}
    /\ Ended("saved", NoError, 0)
    /\ ret' = TRUE
    /\ pc' = "image_ret"
    /\ UNCHANGED <<i, use_veo, scene_videos, attempt, quota_waits,
                  poll_count, invoked, seen, outcome, failed_at,
                  assemblies, manifest, report, raised, filter, kbVars>>

\* the remote call returns no image: the loop goes on without a wait
GenerateImage_Empty ==
    /\ pc = "image"
    /\ attempt < IMAGE_MAX_RETRIES
    /\ calls' = calls + 1
    /\ attempt' = attempt + 1
    /\ Ended("empty", NoError, 0)
    /\ UNCHANGED <<pc, i, use_veo, scene_videos, exists, quota_waits, ret,
                  poll_count, invoked, seen, outcome, failed_at,
                  assemblies, manifest, report, raised, filter, kbVars>>

\* an exception in the try block
GenerateImage_Except ==
    /\ pc = "image"
    /\ attempt < IMAGE_MAX_RETRIES
    /\ calls' = calls + 1
    /\ \E e \in Errors :
            LET cls == ImageClass(e) IN
            IF ImageGivesUp(cls, attempt)
            THEN /\ Ended("raised", e, 0)
                 /\ ret' = FALSE
                 /\ pc' = "image_ret"
                 /\ UNCHANGED <<attempt, quota_waits>>
            ELSE /\ Sleep(e, cls, ImageWait(cls, attempt))
                 /\ attempt' = attempt + 1
                 /\ UNCHANGED <<pc, ret>>
    /\ UNCHANGED <<i, use_veo, scene_videos, exists, poll_count, invoked,
                  seen, outcome, failed_at, assemblies, manifest, report,
                  raised, filter, kbVars>>

\* the for loop ran out: return False
GenerateImage_Exhausted ==
    /\ pc = "image"
    /\ attempt = IMAGE_MAX_RETRIES
    /\ ret' = FALSE
    /\ pc' = "image_ret"
    /\ UNCHANGED <<i, use_veo, scene_videos, exists, attempt, calls,
                  quota_waits, last, poll_count, invoked, seen, outcome,
                  failed_at, assemblies, manifest, report, raised, filter,
                  kbVars>>

\* variant: the continue after a failed generate_image is missing
ImageReturned_mut ==
    /\ pc = "image_ret"
    /\ pc' = "video"
    /\ ResetLocals
    /\ UNCHANGED <<i, use_veo, scene_videos, exists, ret, invoked, seen,
                  outcome, failed_at, assemblies, manifest, report, raised,
                  filter, kbVars>>

\* main after generate_image: go on to step 2, or skip the scene
ImageReturned ==
    /\ pc = "image_ret"
    /\ IF ret
       THEN /\ pc' = "video"
            /\ UNCHANGED <<i, outcome>>
            /\ UNCHANGED <<invoked, seen>>
       ELSE /\ NextScene
            /\ Resolve("image failed")
    /\ ResetLocals
    /\ UNCHANGED <<use_veo, scene_videos, exists, ret, failed_at,
                  assemblies, manifest, report, raised, filter, kbVars>>

----------------------------------------------------------------------------
(* Step 2 of a scene *)

\* Veo if it is still enabled and there is no raw video; else Ken Burns if
\* there is no raw video; else the raw video is reused
SceneVideoStep ==
    /\ pc = "video"
    /\ Look("video", raw_video(i))
    /\ IF use_veo /\ VideoMissing(i)
       THEN /\ pc' = "veo"
            /\ Call("veo")
       ELSE IF VideoMissing(i)
       THEN /\ pc' = "fallback"
            /\ UNCHANGED invoked
       ELSE /\ pc' = "caption"
            /\ UNCHANGED invoked
    /\ UNCHANGED <<i, use_veo, scene_videos, exists, attempt, calls,
                  quota_waits, last, ret, poll_count, outcome, failed_at,
                  assemblies, manifest, report, raised, filter, kbVars>>

----------------------------------------------------------------------------
(* generate_video_from_image *)

\* the except block
VideoExcept(e) ==
    LET cls == VideoClass(e) IN
    IF cls = "quota"
    THEN /\ Sleep(e, cls, VideoWait(cls, attempt))
         /\ attempt' = attempt + 1
         /\ pc' = "veo"
         /\ UNCHANGED ret
    ELSE IF VideoGivesUp(cls, attempt)
    THEN /\ Ended("raised", e, 0)
         /\ ret' = FALSE
         /\ pc' = "veo_ret"
         /\ UNCHANGED <<attempt, quota_waits>>
    ELSE /\ Sleep(e, cls, VideoWait(cls, attempt))
         /\ attempt' = attempt + 1
         /\ pc' = "veo"
         /\ UNCHANGED ret

\* the image is read and the operation submitted; it may be done at once
GenerateVideo_Submit ==
    /\ pc = "veo"
    /\ attempt < VIDEO_MAX_RETRIES
    /\ calls' = calls + 1
    /\ poll_count' = 0
    /\ \E done \in BOOLEAN : pc' = IF done THEN "fetch" ELSE "poll"
    /\ UNCHANGED <<i, use_veo, scene_videos, exists, attempt, quota_waits,
                  last, ret, invoked, seen, outcome, failed_at, assemblies,
                  manifest, report, raised, filter, kbVars>>

\* reading the image or generate_videos raises
GenerateVideo_SubmitExcept ==
    /\ pc = "veo"
    /\ attempt < VIDEO_MAX_RETRIES
    /\ calls' = calls + 1
    /\ \E e \in Errors : VideoExcept(e)
    /\ UNCHANGED <<i, use_veo, scene_videos, exists, poll_count, invoked,
                  seen, outcome, failed_at, assemblies, manifest, report,
                  raised, filter, kbVars>>

\* one turn of the polling loop: count, sleep 10 s, ask for the operation
GenerateVideo_Poll ==
    /\ pc = "poll"
    /\ \E done \in BOOLEAN :
         IF done
         THEN /\ pc' = "fetch"
              /\ poll_count' = 0
         ELSE /\ pc' = "poll"
              /\ poll_count' = (poll_count + 1) % POLL_REPORT_EVERY
    /\ UNCHANGED <<i, use_veo, scene_videos, exists, attempt, calls,
                  quota_waits, last, ret, invoked, seen, outcome,
                  failed_at, assemblies, manifest, report, raised, filter,
                  kbVars>>

\* client.operations.get raises
GenerateVideo_PollExcept ==
    /\ pc = "poll"
    /\ poll_count' = 0
    /\ \E e \in Errors : VideoExcept(e)
    /\ UNCHANGED <<i, use_veo, scene_videos, exists, calls, invoked, seen,
                  outcome, failed_at, assemblies, manifest, report, raised,
                  filter, kbVars>>

\* the operation is done: the video is downloaded and saved
GenerateVideo_Saved ==
    /\ pc = "fetch"
    /\ exists' = exists \cup {raw_video(i)}
    /\ Ended("saved", NoError, 0)
    /\ ret' = TRUE
    /\ pc' = "veo_ret"
    /\ UNCHANGED <<i, use_veo, scene_videos, attempt, calls, quota_waits,
                  poll_count, invoked, seen, outcome, failed_at,
                  assemblies, manifest, report, raised, filter, kbVars>>

\* the operation is done but has no video, or the download or the save
\* raises; a save that failed may leave the file
GenerateVideo_FetchExcept ==
    /\ pc = "fetch"
    /\ \E partial \in BOOLEAN :
         exists' = IF partial THEN exists \cup {raw_video(i)} ELSE exists
    /\ \E e \in Errors : VideoExcept(e)
    /\ UNCHANGED <<i, use_veo, scene_videos, calls, poll_count, invoked,
                  seen, outcome, failed_at, assemblies, manifest, report,
                  raised, filter, kbVars>>

\* the for loop ran out: return False
GenerateVideo_Exhausted ==
    /\ pc = "veo"
    /\ attempt = VIDEO_MAX_RETRIES
    /\ ret' = FALSE
    /\ pc' = "veo_ret"
    /\ UNCHANGED <<i, use_veo, scene_videos, exists, attempt, calls,
                  quota_waits, last, poll_count, invoked, seen, outcome,
                  failed_at, assemblies, manifest, report, raised, filter,
                  kbVars>>

\* variant: a failed animation call leaves use_veo as it was
UseVeoAfter_mut(video_created) == use_veo

\* use_veo after generate_video_from_image returned video_created
UseVeoAfter(video_created) == IF video_created THEN use_veo ELSE FALSE

\* main after generate_video_from_image: video_created is its result; on
\* False use_veo is cleared; then Ken Burns if no video was created and none
\* exists, else step 3
VideoReturned ==
    /\ pc = "veo_ret"
    /\ use_veo' = UseVeoAfter(ret)
    /\ failed_at' = IF ~ret /\ failed_at = 0 THEN i ELSE failed_at
    /\ Look("video left", IF ret THEN NoFile ELSE raw_video(i))
    /\ pc' = IF ~ret /\ VideoMissing(i) THEN "fallback" ELSE "caption"
    /\ ResetLocals
    /\ UNCHANGED <<i, scene_videos, exists, ret, invoked, outcome,
                  assemblies, manifest, report, raised, filter, kbVars>>

----------------------------------------------------------------------------
(* create_fallback_video, as main calls it *)

CreateFallbackVideo ==
    /\ pc = "fallback"
    /\ Call("fallback")
    /\ filter' = KenBurnsFilter(camera[i], FALLBACK_DURATION)
    /\ \E tool \in {"ok", "nonzero", "not started"} :
         \/ /\ tool = "ok"
            /\ exists' = exists \cup {raw_video(i)}
            /\ ret' = TRUE
            /\ pc' = "fallback_ret"
            /\ UNCHANGED raised
         \/ /\ tool = "nonzero"
            /\ ret' = FALSE
            /\ pc' = "fallback_ret"
            /\ UNCHANGED <<exists, raised>>
         \/ /\ tool = "not started"
            /\ raised' = "create_fallback_video"
            /\ pc' = "crashed"
            /\ UNCHANGED <<exists, ret>>
    /\ UNCHANGED <<i, use_veo, scene_videos, attempt, calls, quota_waits,
                  last, poll_count, seen, outcome, failed_at, assemblies,
                  manifest, report, kbVars>>

\* variant: the scene goes on to step 3 whatever the fallback returned
FallbackReturned_mut ==
    /\ pc = "fallback_ret"
    /\ pc' = "caption"
    /\ UNCHANGED <<i, use_veo, scene_videos, exists, attempt, calls,
                  quota_waits, last, ret, poll_count, invoked, seen,
                  outcome, failed_at, assemblies, manifest, report, raised,
                  filter, kbVars>>

\* main after create_fallback_video: step 3, or skip the scene
FallbackReturned ==
    /\ pc = "fallback_ret"
    /\ IF ret
       THEN /\ pc' = "caption"
            /\ UNCHANGED <<i, outcome>>
            /\ UNCHANGED <<invoked, seen>>
       ELSE /\ NextScene
            /\ Resolve("video failed")
    /\ UNCHANGED <<use_veo, scene_videos, exists, attempt, calls,
                  quota_waits, last, ret, poll_count, failed_at,
                  assemblies, manifest, report, raised, filter, kbVars>>

----------------------------------------------------------------------------
(* Step 3 of a scene: add_text_overlay_to_video *)

AddTextOverlay ==
    /\ pc = "caption"
    /\ Call("caption")
    /\ Look("final", final_video(i))
    /\ \E tool \in {"ok", "nonzero", "not started"} :
         \/ /\ tool = "ok"
            /\ exists' = exists \cup {final_video(i)}
            /\ ret' = TRUE
            /\ Resolve("overlay ok")
         \/ /\ tool \in {"nonzero", "not started"}
            /\ ret' = FALSE
            /\ Resolve("overlay failed")
            /\ UNCHANGED exists
    /\ pc' = "caption_ret"
    /\ UNCHANGED <<i, use_veo, scene_videos, attempt, calls, quota_waits,
                  last, poll_count, failed_at, assemblies, manifest,
                  report, raised, filter, kbVars>>

\* variant: the captioned path is appended whatever the overlay returned
Contribution_mut(s, captioned) == final_video(s)

\* what the scene adds to scene_videos, given the overlay's result
Contribution(s, captioned) == IF captioned THEN final_video(s) ELSE raw_video(s)

\* main after add_text_overlay_to_video: the captioned or the raw video is
\* appended, and the loop goes on
OverlayReturned ==
    /\ pc = "caption_ret"
    /\ scene_videos' = Append(scene_videos, Contribution(i, ret))
    /\ NextScene
    /\ UNCHANGED <<use_veo, exists, attempt, calls, quota_waits, last, ret,
                  poll_count, outcome, failed_at, assemblies, manifest,
                  report, raised, filter, kbVars>>

----------------------------------------------------------------------------
(* Final assembly *)

final_output == <<"final_video.mp4", 0>>

\* variant: the final step does not look at scene_videos
HasContributions_mut == TRUE

HasContributions == scene_videos # <<>>

\* after the loop: concatenate if there is anything, else say there is not
FinalStep ==
    /\ pc = "final"
    /\ IF HasContributions
       THEN /\ pc' = "concat"
            /\ UNCHANGED report
       ELSE /\ pc' = "done"
            /\ report' = "no scenes"
    /\ UNCHANGED <<i, use_veo, scene_videos, exists, attempt, calls,
                  quota_waits, last, ret, poll_count, invoked, seen,
                  outcome, failed_at, assemblies, manifest, raised, filter,
                  kbVars>>

ConcatenateVideos ==
    /\ pc = "concat"
    /\ assemblies' = assemblies + 1
    /\ \E tool \in {"ok", "nonzero", "not started", "manifest not written"} :
         \/ /\ tool = "ok"
            /\ manifest' = NoFile
            /\ exists' = exists \cup {final_output}
            /\ ret' = TRUE
            /\ pc' = "concat_ret"
            /\ UNCHANGED raised
         \/ /\ tool = "nonzero"
            /\ manifest' = scene_videos
            /\ ret' = FALSE
            /\ pc' = "concat_ret"
            /\ UNCHANGED <<exists, raised>>
         \/ /\ tool = "not started"
            /\ manifest' = scene_videos
            /\ raised' = "concatenate_videos"
            /\ pc' = "crashed"
            /\ UNCHANGED <<exists, ret>>
         \/ /\ tool = "manifest not written"
            /\ raised' = "concatenate_videos"
            /\ pc' = "crashed"
            /\ UNCHANGED <<exists, ret, manifest>>
    /\ UNCHANGED <<i, use_veo, scene_videos, attempt, calls, quota_waits,
                  last, poll_count, invoked, seen, outcome, failed_at,
                  report, filter, kbVars>>

\* main after concatenate_videos: ffprobe and SUCCESS, or FAILED
ConcatReturned ==
    /\ pc = "concat_ret"
    /\ IF ret
       THEN \E probe \in {"ok", "raises"} :
              IF probe = "ok"
              THEN /\ report' = "success"
                   /\ pc' = "done"
                   /\ UNCHANGED raised
              ELSE /\ raised' = "ffprobe"
                   /\ pc' = "crashed"
                   /\ UNCHANGED report
       ELSE /\ report' = "concatenation failed"
            /\ pc' = "done"
            /\ UNCHANGED raised
    /\ UNCHANGED <<i, use_veo, scene_videos, exists, attempt, calls,
                  quota_waits, last, ret, poll_count, invoked, seen,
                  outcome, failed_at, assemblies, manifest, filter, kbVars>>

Next ==
    \/ FindApiKey
    \/ SceneImageStep
    \/ GenerateImage_Saved
    \/ GenerateImage_Empty
    \/ GenerateImage_Except
    \/ GenerateImage_Exhausted
    \/ ImageReturned
    \/ SceneVideoStep
    \/ GenerateVideo_Submit
    \/ GenerateVideo_SubmitExcept
    \/ GenerateVideo_Poll
    \/ GenerateVideo_PollExcept
    \/ GenerateVideo_Saved
    \/ GenerateVideo_FetchExcept
    \/ GenerateVideo_Exhausted
    \/ VideoReturned
    \/ CreateFallbackVideo
    \/ FallbackReturned
    \/ AddTextOverlay
    \/ OverlayReturned
    \/ FinalStep
    \/ ConcatenateVideos
    \/ ConcatReturned

Spec == Init /\ [][Next]_vars

----------------------------------------------------------------------------
(* create_fallback_video on its own: one call for each motion name and    *)
(* duration, and the frames zoompan renders from the filter it built       *)

InitKB ==
    /\ pc = "kb_call"
    /\ InitMain
    /\ exists = {}
    /\ kb_motion \in Motions
    /\ kb_duration \in 1..MaxDuration
    /\ kb_on = 0
    /\ kb_zoom = 0
    /\ kb_ref = 0

KB_Call ==
    /\ pc = "kb_call"
    /\ filter' = KenBurnsFilter(kb_motion, kb_duration)
    /\ kb_on' = 0
    /\ kb_zoom' = ZOOM_ONE
    /\ kb_ref' = ZOOM_ONE
    /\ pc' = "kb_render"
    /\ UNCHANGED <<i, use_veo, scene_videos, exists, attempt, calls,
                  quota_waits, last, ret, poll_count, invoked, seen,
                  outcome, failed_at, assemblies, manifest, report, raised,
                  kb_motion, kb_duration>>

KB_Frame ==
    /\ pc = "kb_render"
    /\ kb_on < filter.d
    /\ kb_on' = kb_on + 1
    /\ kb_zoom' = ZoomExpr(filter, kb_zoom)
    /\ kb_ref' = ZoomExpr(KenBurnsFilter("slow zoom-in", kb_duration), kb_ref)
    /\ UNCHANGED <<pc, i, use_veo, scene_videos, exists, attempt, calls,
                  quota_waits, last, ret, poll_count, invoked, seen,
                  outcome, failed_at, assemblies, manifest, report, raised,
                  filter, kb_motion, kb_duration>>

KB_End ==
    /\ pc = "kb_render"
    /\ kb_on = filter.d
    /\ pc' = "kb_done"
    /\ UNCHANGED <<i, use_veo, scene_videos, exists, attempt, calls,
                  quota_waits, last, ret, poll_count, invoked, seen,
                  outcome, failed_at, assemblies, manifest, report, raised,
                  filter, kbVars>>

NextKB == KB_Call \/ KB_Frame \/ KB_End

SpecKB == InitKB /\ [][NextKB]_vars

----------------------------------------------------------------------------
(* Properties *)

InImageStage == pc \in {"image", "image_ret"}

InVideoStage == pc \in {"veo", "poll", "fetch", "veo_ret"}

\* the entries of scene_videos that belong to scene s
Entry(s) ==
    {scene_videos[k] : k \in {n \in DOMAIN scene_videos : scene_videos[n][2] = s}}

NonDecreasing(seq) == \A k \in 2..Len(seq) : seq[k - 1] <= seq[k]

\* C1, as stated: once an animation call has returned failure, the animation
\* stage is not called again and every later scene that gets to its caption
\* got its video from the fallback stage.
C1_LaterScenesAllUseFallback ==
    (failed_at # 0 /\ i > failed_at /\ i <= NumScenes) =>
        /\ "veo" \notin invoked
        /\ pc \in {"caption", "caption_ret"} => "fallback" \in invoked

\* C1, amended: once an animation call has returned failure, use_veo is
\* false, the animation stage is not called again, and every later scene
\* that gets to its caption either found its raw video already on disk and
\* called no video stage, or got it from the fallback stage.
C1_NoAnimationAfterFailure ==
    failed_at # 0 =>
        /\ ~use_veo
        /\ ~InVideoStage
        /\ i > failed_at => "veo" \notin invoked
        /\ (i > failed_at /\ i <= NumScenes /\ pc \in {"caption", "caption_ret"}) =>
              IF "video" \in seen
              THEN "fallback" \notin invoked
              ELSE "fallback" \in invoked

C1_Witness ==
    /\ failed_at # 0
    /\ i > failed_at
    /\ pc = "caption_ret"
    /\ "fallback" \in invoked

\* C2: a scene whose raw image was on disk when the scene was reached never
\* has generate_image called for it.
C2_ExistingImageNotRegenerated ==
    "image" \in seen => ("image" \notin invoked /\ ~InImageStage)

C2_Witness ==
    /\ "image" \in seen
    /\ "final" \in seen
    /\ ~use_veo
    /\ pc = "caption_ret"

\* C3: a scene whose overlay failed contributes its raw video, a scene whose
\* overlay succeeded contributes its captioned video, and either way the
\* loop moves on to the next scene without an exception.
C3_OverlayFailureKeepsRawVideo ==
    \A s \in Scenes :
        /\ outcome[s] = "overlay failed" =>
              IF i = s
              THEN pc = "caption_ret" /\ ~ret /\ Entry(s) = {}
              ELSE i > s /\ Entry(s) = {raw_video(s)}
        /\ outcome[s] = "overlay ok" =>
              IF i = s
              THEN pc = "caption_ret" /\ ret /\ Entry(s) = {}
              ELSE i > s /\ Entry(s) = {final_video(s)}
        /\ (outcome[s] \in {"overlay failed", "overlay ok"} /\ i = s + 1 /\ s < NumScenes) =>
              pc \notin {"final", "concat", "concat_ret", "done"}

C3_Witness ==
    \E s \in Scenes :
        /\ outcome[s] = "overlay failed"
        /\ i = s + 1
        /\ pc = "scene"
        /\ Entry(s) = {raw_video(s)}

\* C4: a quota error at attempt a is followed by a sleep of
\* min(10 * 2^a, 120) s in generate_image (a in 0..4) and of
\* min(30 * 2^a, 180) s in generate_video_from_image (a in 0..2); the quota
\* sleeps of one call never decrease and never exceed the cap.
C4_QuotaBackoff ==
    /\ (InImageStage /\ last.outcome = "raised" /\ last.error.quota) =>
          /\ last.attempt \in 0..4
          /\ last.slept = Min(10 * (2 ^ last.attempt), 120)
    /\ (InVideoStage /\ last.outcome = "raised" /\ last.error.quota) =>
          /\ last.attempt \in 0..2
          /\ last.slept = Min(30 * (2 ^ last.attempt), 180)
    /\ NonDecreasing(quota_waits)
    /\ InImageStage => \A k \in DOMAIN quota_waits : quota_waits[k] <= 120
    /\ InVideoStage => \A k \in DOMAIN quota_waits : quota_waits[k] <= 180

C4_Witness ==
    /\ pc = "image"
    /\ last.attempt = 4
    /\ last.error.quota
    /\ quota_waits = <<10, 20, 40, 80, 120>>

Recognized == {"slow zoom-in", "slow outside-in drift", "slow follow", "upward tilt"}

KBCalled == pc \in {"kb_render", "kb_done"}

\* C5, as stated: with a motion name that is none of the four presets,
\* create_fallback_video builds the filter of "slow zoom-in" and every frame
\* has the zoom "slow zoom-in" gives it.
C5_UnlistedMotionIsSlowZoomIn ==
    (KBCalled /\ kb_motion \notin Recognized) =>
        /\ filter = KenBurnsFilter("slow zoom-in", kb_duration)
        /\ kb_zoom = kb_ref

\* C5, amended: with a motion name that is none of the four presets the
\* filter has the zoom increment (0.0003 a frame), the centre anchoring, the
\* frame count and the output size of "slow zoom-in" but caps the zoom at
\* 1.1 where "slow zoom-in" caps it at 1.12; the zoom is that of
\* "slow zoom-in" on the first 333 frames and stays at 1.1 after them.
C5_UnlistedMotionCapsLower ==
    (KBCalled /\ kb_motion \notin Recognized) =>
        LET ref == KenBurnsFilter("slow zoom-in", kb_duration) IN
        /\ filter.law = "zoom" /\ ref.law = "zoom"
        /\ filter.inc = 3 /\ ref.inc = 3
        /\ filter.x = ref.x /\ filter.y = ref.y
        /\ filter.d = ref.d /\ filter.d = 25 * kb_duration
        /\ filter.s = ref.s
        /\ filter.cap = 11000 /\ ref.cap = 11200
        /\ kb_on <= 333 => kb_zoom = kb_ref
        /\ kb_on > 333 => (kb_zoom = 11000 /\ kb_ref > 11000)

C5_Witness ==
    /\ KBCalled
    /\ kb_motion = "zoom-in"
    /\ kb_on = 334
    /\ kb_zoom = 11000
    /\ kb_ref = 11002

\* C6: concatenate_videos is called at most once, only when every scene has
\* been resolved and scene_videos is not empty; a run whose scenes all ended
\* without a contribution ends with the "no scenes" message and no call.
C6_AssemblyOnceAfterAllScenes ==
    /\ assemblies <= 1
    /\ (assemblies > 0 \/ pc \in {"concat", "concat_ret"}) =>
          /\ i = NumScenes + 1
          /\ \A s \in Scenes : outcome[s] # "pending"
          /\ scene_videos # <<>>
    /\ (i = NumScenes + 1 /\ scene_videos = <<>>) =>
          /\ assemblies = 0
          /\ pc \in {"final", "done"}
          /\ pc = "done" => report = "no scenes"
    /\ report = "no scenes" =>
          \A s \in Scenes : outcome[s] \in {"image failed", "video failed"}

C6_Witness ==
    /\ assemblies = 1
    /\ pc = "done"
    /\ outcome[1] = "image failed"
    /\ Len(scene_videos) = 1

\* C7: generate_image makes at most 5 remote calls; an attempt that saved an
\* image returns True at once; it returns False only after 5 calls none of
\* which saved an image; an error without quota or unavailable marker at the
\* fifth attempt returns False without sleeping.
C7_GenerateImageRetries ==
    InImageStage =>
        /\ calls <= 5
        /\ pc = "image" => calls = attempt
        /\ last.outcome = "saved" =>
              /\ pc = "image_ret" /\ ret
              /\ calls = last.attempt + 1
              /\ raw_image(i) \in exists
        /\ pc = "image_ret" => (ret <=> last.outcome = "saved")
        /\ (pc = "image_ret" /\ ~ret) => (calls = 5 /\ raw_image(i) \notin exists)
        /\ (last.outcome = "raised" /\ last.attempt = 4
              /\ ~last.error.quota /\ ~last.error.unavailable) =>
              /\ pc = "image_ret" /\ ~ret
              /\ last.slept = 0
              /\ attempt = 4 /\ calls = 5

C7_Witness ==
    /\ pc = "image_ret"
    /\ ~ret
    /\ last = [attempt |-> 4, outcome |-> "raised", error |-> NoError, slept |-> 0]
    /\ quota_waits = <<10, 40>>

\* C8: no failure of a stage's tool or remote call leaves the stage as an
\* exception.
C8_StagesReturnTheirFailures ==
    raised \notin {"create_fallback_video", "concatenate_videos"}

\* C9, as stated: each of the three artifacts of a scene, when present as
\* the scene reaches the stage that writes it, keeps that stage from running.
C9_ExistingArtifactSkipsItsStage ==
    /\ "image" \in seen => "image" \notin invoked
    /\ "video" \in seen => invoked \cap {"veo", "fallback"} = {}
    /\ "final" \in seen => "caption" \notin invoked

\* C9, amended: a raw image or raw video present when the scene reaches its
\* step keeps the stage that writes it from running and the scene goes on
\* with the file; the captioned video is never looked for, the overlay runs
\* for every scene whose video is ready.
C9_RawArtifactsSkipOverlayAlwaysRuns ==
    /\ "image" \in seen => ("image" \notin invoked /\ ~InImageStage)
    /\ "video" \in seen =>
          /\ invoked \cap {"veo", "fallback"} = {}
          /\ pc \in {"caption", "caption_ret"}
    /\ pc = "caption_ret" => "caption" \in invoked
    /\ "final" \in seen => "caption" \in invoked

C9_Witness ==
    /\ "final" \in seen
    /\ "video" \in seen
    /\ "caption" \in invoked
    /\ pc = "caption_ret"

\* C10: when generate_image has returned False the scene is skipped: no
\* other stage was or is called for it, it adds nothing to scene_videos,
\* use_veo and the files stay as they are, and the loop goes on with the
\* next scene.
C10_ImageFailureAbandonsScene ==
    /\ [](\A s \in Scenes : outcome[s] = "image failed" => (i > s /\ Entry(s) = {}))
    /\ [][(pc = "image_ret" /\ ~ret) =>
            /\ invoked = {"image"}
            /\ Entry(i) = {}
            /\ outcome'[i] = "image failed"
            /\ i' = i + 1
            /\ pc' = IF i < NumScenes THEN "scene" ELSE "final"
            /\ UNCHANGED <<use_veo, scene_videos, exists>>]_vars

C10_Witness ==
    \E s \in Scenes :
        /\ outcome[s] = "image failed"
        /\ i = s + 1
        /\ use_veo
        /\ "veo" \in invoked
        /\ pc = "caption_ret"

\* C11, as stated: whenever concatenate_videos has returned, with True or
\* with False, concat.txt is no longer on disk, and every clip listed in
\* scene_videos is still there.
C11_ManifestGoneAfterAssembly ==
    (assemblies > 0 /\ pc \in {"concat_ret", "done"}) =>
        /\ manifest = NoFile
        /\ \A k \in DOMAIN scene_videos : scene_videos[k] \in exists

\* C12, as stated: when generate_video_from_image has returned False for a
\* scene, create_fallback_video is called for that scene before it gets to
\* its caption or is skipped, whatever the failed call left at the raw video
\* path.
C12_FallbackAfterAnimationFailure ==
    (failed_at = i /\ pc \in {"caption", "caption_ret"}) => "fallback" \in invoked

\* C13: a scene whose raw video is on disk as it reaches step 2 calls
\* neither generate_video_from_image nor create_fallback_video, leaves
\* use_veo and the files as they are, and goes on to its caption, where the
\* overlay is given that file.
C13_ExistingRawVideoGoesToCaption ==
    /\ []("video" \in seen =>
            /\ invoked \cap {"veo", "fallback"} = {}
            /\ pc \in {"caption", "caption_ret"}
            /\ raw_video(i) \in exists
            /\ failed_at # i)
    /\ [][(pc = "video" /\ raw_video(i) \in exists) =>
            /\ pc' = "caption"
            /\ UNCHANGED <<i, use_veo, scene_videos, exists, invoked, outcome, failed_at>>]_vars

C13_Witness ==
    /\ "video" \in seen
    /\ "image" \in invoked
    /\ use_veo
    /\ pc = "caption_ret"
    /\ outcome[i] = "overlay ok"

\* C14: use_veo is True until an animation call has returned False; the
\* step of main that follows a False from generate_video_from_image clears
\* it, no other step changes it, and once False it stays False.
C14_UseVeoClearedOnceByAnimationFailure ==
    /\ [](failed_at = 0 => use_veo)
    /\ [][(pc = "veo_ret" /\ ~ret) => ~use_veo']_vars
    /\ [][use_veo' # use_veo => (pc = "veo_ret" /\ ~ret /\ use_veo)]_vars
    /\ [][~use_veo => ~use_veo']_vars

C14_Witness ==
    /\ ~use_veo
    /\ failed_at = 2
    /\ Entry(1) # {}
    /\ pc = "done"

Abandoned(s) == outcome[s] \in {"image failed", "video failed"}

\* C15: scene_videos lists scenes in strictly increasing order, so at most
\* one entry per scene; each entry is the captioned or the raw video path of
\* its scene; a skipped scene has no entry; and a skipped scene stays
\* skipped: the loop is past it and never comes back to it.
C15_ContributionsOrderedOnePerScene ==
    /\ [](/\ \A k \in 2..Len(scene_videos) : scene_videos[k - 1][2] < scene_videos[k][2]
          /\ \A k \in DOMAIN scene_videos :
                /\ scene_videos[k][2] \in Scenes
                /\ scene_videos[k][2] <= i
                /\ scene_videos[k] \in {final_video(scene_videos[k][2]),
                                        raw_video(scene_videos[k][2])}
          /\ \A s \in Scenes : Abandoned(s) => (Entry(s) = {} /\ i > s))
    /\ [][/\ i' >= i
          /\ \A s \in Scenes : Abandoned(s) =>
                (outcome'[s] = outcome[s] /\ Entry(s)' = {})]_vars

C15_Witness ==
    /\ scene_videos = <<raw_video(1), final_video(3)>>
    /\ outcome[2] = "video failed"
    /\ outcome[4] = "image failed"
    /\ pc = "done"

\* C16, as stated: in generate_video_from_image an error that is
\* 503/UNAVAILABLE and not a quota error is waited on with a backoff that
\* doubles with the attempt, like a quota error: it waits on the last
\* attempt too and, after the first attempt, longer than the fixed delay.
C16_UnavailableBacksOffInAnimation ==
    (/\ InVideoStage
     /\ last.outcome = "raised"
     /\ last.error.unavailable
     /\ ~last.error.quota) =>
        /\ last.slept > 0
        /\ last.attempt > 0 => last.slept > VIDEO_OTHER_DELAY

\* C16, amended: generate_video_from_image knows two classes of error. A
\* quota error waits min(30 * 2^attempt, 180) s. Every other error,
\* 503/UNAVAILABLE included, waits the fixed 10 s, or on the last attempt
\* ends the call with False and no wait.
C16_AnimationHasTwoErrorClasses ==
    (InVideoStage /\ last.outcome = "raised") =>
        IF last.error.quota
        THEN last.slept = Min((2 ^ last.attempt) * VIDEO_QUOTA_BASE, VIDEO_QUOTA_CAP)
        ELSE IF last.attempt = VIDEO_MAX_RETRIES - 1
        THEN last.slept = 0 /\ pc = "veo_ret" /\ ~ret
        ELSE last.slept = VIDEO_OTHER_DELAY

C16_Witness ==
    /\ pc = "veo"
    /\ attempt = 2
    /\ last = [attempt |-> 1, outcome |-> "raised",
               error |-> [quota |-> FALSE, unavailable |-> TRUE],
               slept |-> VIDEO_OTHER_DELAY]

\* C17, as stated, for a run that has ended: every scene has resolved, and
\* the final assembly was called or the no-output report was made.
C17_EndedRunResolvedEveryScene ==
    pc \in {"done", "crashed"} =>
        /\ \A s \in Scenes : outcome[s] # "pending"
        /\ assemblies > 0 \/ report = "no scenes"

InFallbackStage == pc \in {"fallback", "fallback_ret"}

InCaptionStage == pc \in {"caption", "caption_ret"}

\* C18: within a scene the stages are called in the order image, video,
\* caption; a video stage is called only with the raw image on disk and the
\* overlay only with the raw video on disk; the fallback follows an
\* animation call only when that call failed; and while scene i is being
\* processed every earlier scene has resolved and no later one has started.
C18_StagesInOrderWithTheirInputs ==
    /\ InImageStage => invoked = {"image"}
    /\ (InVideoStage \/ InFallbackStage) =>
          /\ raw_image(i) \in exists
          /\ "caption" \notin invoked
    /\ InVideoStage => invoked \cap {"veo", "fallback"} = {"veo"}
    /\ ("veo" \in invoked /\ "fallback" \in invoked) => failed_at = i
    /\ InCaptionStage => raw_video(i) \in exists
    /\ "caption" \in invoked => pc = "caption_ret"
    /\ invoked # {} => i \in Scenes
    /\ \A s \in Scenes :
          /\ s < i => outcome[s] # "pending"
          /\ s > i => outcome[s] = "pending"

C18_Witness ==
    /\ i = 2
    /\ pc = "caption_ret"
    /\ invoked = {"image", "veo", "fallback", "caption"}
    /\ Entry(1) = {}

\* C19: a quota error is followed by its backoff sleep on the last attempt
\* too, after which the loop runs out and the call returns False. A call
\* whose every attempt raised a quota error has called the remote operation
\* max_retries times and slept 10, 20, 40, 80, 120 s (generate_image) or
\* 30, 60, 120 s (generate_video_from_image). An error of class other on the
\* last attempt ends the call with False and no sleep.
C19_QuotaWaitsOnLastAttemptOtherDoesNot ==
    /\ (InImageStage /\ last.outcome = "raised" /\ last.attempt = IMAGE_MAX_RETRIES - 1) =>
          IF last.error.quota
          THEN /\ last.slept = IMAGE_QUOTA_CAP
               /\ attempt = IMAGE_MAX_RETRIES
               /\ pc = "image_ret" => ~ret
          ELSE ImageClass(last.error) = "other" =>
                  (last.slept = 0 /\ pc = "image_ret" /\ ~ret)
    /\ (InVideoStage /\ last.outcome = "raised" /\ last.attempt = VIDEO_MAX_RETRIES - 1) =>
          IF last.error.quota
          THEN /\ last.slept = 120
               /\ attempt = VIDEO_MAX_RETRIES
               /\ pc = "veo_ret" => ~ret
          ELSE last.slept = 0 /\ pc = "veo_ret" /\ ~ret
    /\ (InImageStage /\ Len(quota_waits) = IMAGE_MAX_RETRIES) =>
          /\ quota_waits = <<10, 20, 40, 80, 120>>
          /\ calls = IMAGE_MAX_RETRIES
          /\ pc = "image_ret" => ~ret
    /\ (InVideoStage /\ Len(quota_waits) = VIDEO_MAX_RETRIES) =>
          /\ quota_waits = <<30, 60, 120>>
          /\ calls = VIDEO_MAX_RETRIES
          /\ pc = "veo_ret" => ~ret

C19_Witness ==
    /\ pc = "image_ret"
    /\ ~ret
    /\ calls = 5
    /\ quota_waits = <<10, 20, 40, 80, 120>>
    /\ last.error.quota

====
